---- MODULE Spec2Model ----
(***************************************************************************)
(* A model of vchangelog (src/vchangelog.py): the commit-subject parser,   *)
(* the categorizer and renderer, the diff reformatter, the range           *)
(* resolution of main, and the spinner thread of the two AI requests.      *)
(*                                                                         *)
(* Text is modelled as a sequence of one-character strings, so that the    *)
(* regular expressions of the source are matched character by character.   *)
(* Python's None is the empty tuple <<>>, and an optional value v that is  *)
(* present is the one-element tuple <<v>>.                                 *)
(***************************************************************************)
EXTENDS Integers, Sequences, FiniteSets, TLC

VARIABLES
    pc,            \* position of the invocation
    message,       \* parse_commit: its argument
    parsed,        \* parse_commit: its result
    commits,       \* categorize_commits: the subjects of the range
    fmt,           \* format_output: 'text' or 'md'
    emoji,         \* format_output: the emoji switch
    categorized,   \* the dict built by categorize_commits, in insertion order
    output,        \* format_output: its result, the lines joined by newlines
    diff_text,     \* format_diff_with_separators: its argument
    formatted,     \* format_diff_with_separators: its result
    log,           \* git log --all: the commits, newest first, as [hash, subject]
    args,          \* main: the parsed command line
    versions,      \* main: the result of get_versions()
    from_hash,     \* the result of find_commit_for_version(from_version)
    to_hash,       \* the result of find_commit_for_version(to_version)
    stdout,        \* what the invocation printed on standard output
    stderr,        \* the error message printed, if any
    exit_code,     \* the exit status, <<>> while running
    func,          \* the AI request: "call_ai" or "generate_commit_message"
    config,        \* the AI request: the url and the key of load_config()
    staged,        \* generate_commit_message: the result of get_staged_diff()
    stop_event,    \* threading.Event(): its flag
    spin_thread,   \* position of the spinner thread
    chars,         \* spinner: index of the next frame of the cycle
    tty            \* what the terminal line of the spinner shows

parseVars == <<message, parsed>>
clVars    == <<commits, fmt, emoji, categorized, output>>
diffVars  == <<diff_text, formatted>>
mainVars  == <<log, args, versions, from_hash, to_hash, stdout, stderr, exit_code>>
spinVars  == <<func, config, staged, stop_event, spin_thread, chars, tty>>
vars      == <<pc, parseVars, clVars, diffVars, mainVars, spinVars>>

None == <<>>

(***************************************************************************)
(* Bounds of the model.                                                    *)
(***************************************************************************)
MaxLen     == 4   \* longest exhaustively enumerated subject (characters)
MaxCommits == 3   \* most subjects in one range
MaxLines   == 3   \* most lines of one diff
MaxLog     == 3   \* most commits in the history

(***************************************************************************)
(* Characters and the character classes of Python's re.                    *)
(***************************************************************************)
LowerLetters == <<"a","b","c","d","e","f","g","h","i","j","k","l","m",
                  "n","o","p","q","r","s","t","u","v","w","x","y","z">>
UpperLetters == <<"A","B","C","D","E","F","G","H","I","J","K","L","M",
                  "N","O","P","Q","R","S","T","U","V","W","X","Y","Z">>

Range(f) == {f[i] : i \in DOMAIN f}

IsDigit(c) == c \in {"0","1","2","3","4","5","6","7","8","9"}

IsSpace(c) == c \in {" ", "\t", "\n", "\r"}

\* \w: a letter, a digit or the underscore
IsWord(c) == IsDigit(c) \/ c = "_" \/ c \in Range(LowerLetters) \/ c \in Range(UpperLetters)

\* str.lower() on one character
LowerChar(c) ==
    IF c \in Range(UpperLetters)
    THEN LowerLetters[CHOOSE i \in DOMAIN UpperLetters : UpperLetters[i] = c]
    ELSE c

\* str.lower()
Lower(s) == [i \in DOMAIN s |-> LowerChar(s[i])]

\* s[i:] in Python with i counted from 1
Tail_(s, i) == SubSeq(s, i, Len(s))

\* str.startswith
StartsWith(s, p) == Len(p) <= Len(s) /\ SubSeq(s, 1, Len(p)) = p

\* the "in" operator on strings: p occurs in s
Contains(s, p) == \E i \in 1..(Len(s) - Len(p) + 1) : SubSeq(s, i, i + Len(p) - 1) = p

RECURSIVE LStrip(_)
LStrip(s) == IF s # <<>> /\ IsSpace(s[1]) THEN LStrip(Tail(s)) ELSE s

RECURSIVE RStrip(_)
RStrip(s) == IF s # <<>> /\ IsSpace(s[Len(s)]) THEN RStrip(SubSeq(s, 1, Len(s) - 1)) ELSE s

\* str.strip()
Strip(s) == RStrip(LStrip(s))

(***************************************************************************)
(* Regular expressions, matched as re.match does: from position 1, by the  *)
(* set of positions each piece of the pattern can end at.                  *)
(***************************************************************************)
\* x? for a single character x
AfterOpt(s, P, c) == P \cup {p + 1 : p \in {q \in P : q <= Len(s) /\ s[q] = c}}

\* one character of the set C
AfterChar(s, P, C) == {p + 1 : p \in {q \in P : q <= Len(s) /\ s[q] \in C}}

\* \d+
AfterDigits(s, P) ==
    {j \in 2..(Len(s) + 1) : \E p \in P : p < j /\ \A k \in p..(j - 1) : IsDigit(s[k])}

\* .+  (the dot matches anything but a newline)
AfterAny(s, P) ==
    {j \in 2..(Len(s) + 1) : \E p \in P : p < j /\ \A k \in p..(j - 1) : s[k] # "\n"}

\* $ : the end of the string, or just before a newline that ends it
AtEnd(s, p) == p = Len(s) + 1 \/ (p = Len(s) /\ s[p] = "\n")

\* re.match(VERSION_PATTERN, s):  ^v?\d+\.\d+(\.\d+)?([+\-].+)?$
MatchVersion(s) ==
    LET P1 == AfterOpt(s, {1}, "v")
        P2 == AfterDigits(s, P1)
        P3 == AfterChar(s, P2, {"."})
        P4 == AfterDigits(s, P3)
        P5 == P4 \cup AfterDigits(s, AfterChar(s, P4, {"."}))
        P6 == P5 \cup AfterAny(s, AfterChar(s, P5, {"+", "-"}))
    IN  \E p \in P6 : AtEnd(s, p)

\* The longest run of characters satisfying \w from position 1: its length.
RECURSIVE WordRun(_, _)
WordRun(s, i) == IF i <= Len(s) /\ IsWord(s[i]) THEN WordRun(s, i + 1) ELSE i - 1

\* The position of the first ")" at or after i, or 0.
RECURSIVE FirstClose(_, _)
FirstClose(s, i) ==
    IF i > Len(s) THEN 0
    ELSE IF s[i] = ")" THEN i
    ELSE FirstClose(s, i + 1)

\* ": " then .+ then $ from position i: the description, or None
MatchColonRest(s, i) ==
    IF /\ i + 2 <= Len(s)
       /\ s[i] = ":"
       /\ s[i + 1] = " "
       /\ \A k \in (i + 2)..Len(s) : s[k] # "\n"
    THEN <<Tail_(s, i + 2)>>
    ELSE None

\* re.match(r'^(\w+)(?:\(([^)]+)\))?: (.+)$', s): the groups, or None.
\* \w+ is greedy and whatever follows it is no word character, so group 1 is
\* the whole leading run; [^)]+ runs to the first ")".
MatchCommit(s) ==
    LET w == WordRun(s, 1)
        c == FirstClose(s, w + 2)
    IN  IF w = 0 THEN None
        ELSE IF /\ w + 1 <= Len(s)
                /\ s[w + 1] = "("
                /\ c > w + 2
                /\ MatchColonRest(s, c + 1) # None
        THEN <<[g1 |-> SubSeq(s, 1, w),
                g2 |-> <<SubSeq(s, w + 2, c - 1)>>,
                g3 |-> MatchColonRest(s, c + 1)[1]]>>
        ELSE IF MatchColonRest(s, w + 1) # None
        THEN <<[g1 |-> SubSeq(s, 1, w),
                g2 |-> None,
                g3 |-> MatchColonRest(s, w + 1)[1]]>>
        ELSE None

Other == <<"o","t","h","e","r">>

\* parse_commit without the version test: a faulty variant
ParseCommitNoVersionTest(msg) ==
    IF MatchCommit(msg) # None
    THEN <<[type |-> Lower(MatchCommit(msg)[1].g1),
            scope |-> MatchCommit(msg)[1].g2,
            description |-> MatchCommit(msg)[1].g3]>>
    ELSE <<[type |-> Other, scope |-> None, description |-> msg]>>

\* parse_commit(message): None, or <<record>>
parse_commit(msg) ==
    IF MatchVersion(msg) THEN None
    ELSE IF MatchCommit(msg) # None
    THEN <<[type |-> Lower(MatchCommit(msg)[1].g1),
            scope |-> MatchCommit(msg)[1].g2,
            description |-> MatchCommit(msg)[1].g3]>>
    ELSE <<[type |-> Other, scope |-> None, description |-> msg]>>

(***************************************************************************)
(* The category table.  A character outside ASCII is written by its code   *)
(* point: "U+2728" is one character, neither \w nor \s.                    *)
(***************************************************************************)
CATEGORIES ==
    << 
       [key |-> <<"f","e","a","t">>,
        title |-> <<"U+2728"," ","F","e","a","t","u","r","e","s">>,
        rank |-> 1],
       [key |-> <<"f","i","x">>,
        title |-> <<"U+1F41B"," ","B","u","g"," ","F","i","x","e","s">>,
        rank |-> 2],
       [key |-> <<"p","e","r","f">>,
        title |-> <<"U+26A1"," ","P","e","r","f","o","r","m","a","n","c","e">>,
        rank |-> 3],
       [key |-> <<"c","h","o","r","e">>,
        title |-> <<"U+1F527"," ","C","h","o","r","e","s">>,
        rank |-> 4],
       [key |-> <<"d","o","c","s">>,
        title |-> <<"U+1F4DA"," ","D","o","c","u","m","e","n","t","a","t","i","o","n">>,
        rank |-> 5],
       [key |-> <<"r","e","f","a","c","t","o","r">>,
        title |-> <<"U+267B","U+FE0F"," ","R","e","f","a","c","t","o","r","s">>,
        rank |-> 6],
       [key |-> <<"t","e","s","t">>,
        title |-> <<"U+1F9EA"," ","T","e","s","t","s">>,
        rank |-> 7],
       [key |-> <<"o","t","h","e","r">>,
        title |-> <<"U+1F4DD"," ","O","t","h","e","r">>,
        rank |-> 99] >>

CategoryKeys == {CATEGORIES[i].key : i \in DOMAIN CATEGORIES}

OtherEntry == CHOOSE c \in Range(CATEGORIES) : c.key = Other

\* CATEGORIES.get(k, default)
CategoriesGet(k, default) ==
    IF k \in CategoryKeys THEN CHOOSE c \in Range(CATEGORIES) : c.key = k ELSE default

\* The length of the run of characters from position i that satisfy neither \w nor \s.
RECURSIVE SymbolRun(_, _)
SymbolRun(s, i) ==
    IF i <= Len(s) /\ ~IsWord(s[i]) /\ ~IsSpace(s[i]) THEN 1 + SymbolRun(s, i + 1) ELSE 0

\* a strip that removes one symbol only, [^\w\s] for [^\w\s]+ : a faulty variant
StripOneSymbol(text) ==
    LET a == LStrip(text)
    IN  IF SymbolRun(a, 1) = 0 THEN text ELSE LStrip(Tail(a))

\* re.sub(r'^\s*[^\w\s]+\s*', '', text)
strip_emoji_prefix(text) ==
    LET a == LStrip(text)
        n == SymbolRun(a, 1)
    IN  IF n = 0 THEN text ELSE LStrip(Tail_(a, n + 1))

get_category_title(cat_type, withEmoji) ==
    LET title == CategoriesGet(cat_type, OtherEntry).title
    IN  IF withEmoji THEN title ELSE strip_emoji_prefix(title)

(***************************************************************************)
(* categorize_commits.  The dict is a sequence of [key, commits] entries   *)
(* in insertion order, one entry for a key.                                *)
(***************************************************************************)
\* the type taken as it is parsed: a faulty variant
CommitTypeAsParsed(rec) == rec.type

\* parsed['type'] if parsed['type'] in CATEGORIES else 'other'
CommitType(rec) == IF rec.type \in CategoryKeys THEN rec.type ELSE Other

\* the record put first: a faulty variant
PrependCommit(list, rec) == <<rec>> \o list

\* categorized[commit_type].append(parsed)
AppendCommit(list, rec) == Append(list, rec)

HasKey(dict, k) == \E i \in DOMAIN dict : dict[i].key = k

\* one pass of the loop body
CategorizeOne(dict, msg) ==
    LET p == parse_commit(msg)
    IN  IF p = None THEN dict
        ELSE LET t == CommitType(p[1])
                 d == IF HasKey(dict, t) THEN dict
                      ELSE Append(dict, [key |-> t, commits |-> <<>>])
                 i == CHOOSE j \in DOMAIN d : d[j].key = t
             IN  [d EXCEPT ![i].commits = AppendCommit(@, p[1])]

RECURSIVE CategorizeFrom(_, _)
CategorizeFrom(dict, msgs) ==
    IF msgs = <<>> THEN dict
    ELSE CategorizeFrom(CategorizeOne(dict, Head(msgs)), Tail(msgs))

categorize_commits(msgs) == CategorizeFrom(<<>>, msgs)

(***************************************************************************)
(* format_output.                                                          *)
(***************************************************************************)
\* the key of sorted(): CATEGORIES.get(x[0], ('', 99))[1]
SortKey(entry) == CategoriesGet(entry.key, [key |-> <<>>, title |-> <<>>, rank |-> 99]).rank

\* e put into the sorted sequence s after every entry whose key is not greater
RECURSIVE InsertSorted(_, _)
InsertSorted(s, e) ==
    IF s = <<>> THEN <<e>>
    ELSE IF SortKey(e) < SortKey(Head(s)) THEN <<e>> \o s
    ELSE <<Head(s)>> \o InsertSorted(Tail(s), e)

RECURSIVE StableSort(_, _)
StableSort(done, todo) ==
    IF todo = <<>> THEN done ELSE StableSort(InsertSorted(done, Head(todo)), Tail(todo))

\* the items in insertion order: a faulty variant
Unsorted(dict) == dict

\* sorted(categorized.items(), key=...): stable, ascending
SortedCats(dict) == StableSort(<<>>, dict)

\* '\n'.join(ls)
RECURSIVE Join(_)
Join(ls) ==
    IF ls = <<>> THEN <<>>
    ELSE IF Len(ls) = 1 THEN ls[1]
    ELSE ls[1] \o <<"\n">> \o Join(Tail(ls))

\* "  - {scope}{description}"
BulletLine(c) ==
    <<" ", " ", "-", " ">>
        \o (IF c.scope # None /\ c.scope[1] # <<>> THEN c.scope[1] \o <<":", " ">> ELSE <<>>)
        \o c.description

RECURSIVE BulletLines(_)
BulletLines(cs) == IF cs = <<>> THEN <<>> ELSE <<BulletLine(Head(cs))>> \o BulletLines(Tail(cs))

\* the lines of one category: nothing for an empty list
CategoryBlock(entry, f, withEmoji) ==
    IF entry.commits = <<>> THEN <<>>
    ELSE <<(IF f = "md" THEN <<"#", "#", "#", " ">> ELSE <<>>)
             \o get_category_title(entry.key, withEmoji) \o <<":">>>>
         \o BulletLines(entry.commits)
         \o << <<>> >>

RECURSIVE CategoryBlocks(_, _, _)
CategoryBlocks(entries, f, withEmoji) ==
    IF entries = <<>> THEN <<>>
    ELSE CategoryBlock(Head(entries), f, withEmoji) \o CategoryBlocks(Tail(entries), f, withEmoji)

\* "{'## ' if fmt == 'md' else ''}Changelog: {from_v} → {to_v}\n"
HeaderLine(from_v, to_v, f) ==
    (IF f = "md" THEN <<"#", "#", " ">> ELSE <<>>)
        \o <<"C","h","a","n","g","e","l","o","g",":"," ">>
        \o from_v \o <<" ", "U+2192", " ">> \o to_v \o <<"\n">>

format_output(from_v, to_v, dict, f, withEmoji) ==
    Join(<<HeaderLine(from_v, to_v, f)>> \o CategoryBlocks(SortedCats(dict), f, withEmoji))

(***************************************************************************)
(* format_diff_with_separators.  "ESC" is the one character \x1b.          *)
(***************************************************************************)
SepWidth == 72

\* '-' * 72
sep_line == [i \in 1..SepWidth |-> "-"]

\* The length of the run of characters of [0-9;] from position i.
RECURSIVE CodeRun(_, _)
CodeRun(s, i) ==
    IF i <= Len(s) /\ (IsDigit(s[i]) \/ s[i] = ";") THEN 1 + CodeRun(s, i + 1) ELSE 0

\* The length of the match of \x1b\[[0-9;]*m at the head of s, or 0.
AnsiLen(s) ==
    IF Len(s) >= 3 /\ s[1] = "ESC" /\ s[2] = "["
    THEN LET k == CodeRun(s, 3)
         IN  IF 3 + k <= Len(s) /\ s[3 + k] = "m" THEN 3 + k ELSE 0
    ELSE 0

\* ANSI_ESCAPE_PATTERN.sub('', s)
RECURSIVE StripAnsi(_)
StripAnsi(s) ==
    IF s = <<>> THEN <<>>
    ELSE IF AnsiLen(s) > 0 THEN StripAnsi(Tail_(s, AnsiLen(s) + 1))
    ELSE <<Head(s)>> \o StripAnsi(Tail(s))

\* str.split(): the maximal runs of characters that are no whitespace
RECURSIVE SplitWords(_, _)
SplitWords(s, cur) ==
    IF s = <<>> THEN (IF cur = <<>> THEN <<>> ELSE <<cur>>)
    ELSE IF IsSpace(Head(s))
    THEN (IF cur = <<>> THEN <<>> ELSE <<cur>>) \o SplitWords(Tail(s), <<>>)
    ELSE SplitWords(Tail(s), Append(cur, Head(s)))

\* the characters str.splitlines() ends a line at, besides the pair \r\n
LineBreaks == {"\n", "\r", "\f"}

\* The position of the first character of B in text, or 0.
FirstOf(text, B) ==
    IF \E i \in DOMAIN text : text[i] \in B
    THEN CHOOSE i \in DOMAIN text : text[i] \in B /\ \A j \in 1..(i - 1) : text[j] \notin B
    ELSE 0

\* str.splitlines(): no line after the last line break
RECURSIVE splitlines(_)
splitlines(text) ==
    LET i == FirstOf(text, LineBreaks)
        n == IF i < Len(text) /\ text[i] = "\r" /\ text[i + 1] = "\n" THEN 2 ELSE 1
    IN  IF text = <<>> THEN <<>>
        ELSE IF i = 0 THEN <<text>>
        ELSE <<SubSeq(text, 1, i - 1)>> \o splitlines(Tail_(text, i + n))

DiffMarker == <<"d","i","f","f"," ","-","-","g","i","t"," ">>

\* parts[i][2:] if parts[i].startswith(prefix) else parts[i]
PathOf(part, prefix) == IF StartsWith(part, prefix) THEN Tail_(part, 3) ELSE part

\* file_label of a header line (lines 290-295)
FileLabel(clean_line) ==
    LET parts == SplitWords(clean_line, <<>>)
    IN  IF Len(parts) >= 4
        THEN LET a_path == PathOf(parts[3], <<"a", "/">>)
                 b_path == PathOf(parts[4], <<"b", "/">>)
             IN  IF a_path # b_path THEN a_path \o <<" ", "-", ">", " ">> \o b_path ELSE a_path
        ELSE <<>>

\* the line emitted without its colour codes: a faulty variant
EmitClean(line, clean_line) == clean_line

\* formatted.append(line)
EmitLine(line, clean_line) == line

\* one pass of the loop body
FormatDiffLine(out, line) ==
    LET clean_line == StripAnsi(line)
    IN  IF StartsWith(clean_line, DiffMarker)
        THEN out
              \o (IF out # <<>> THEN <<sep_line>> ELSE <<>>)
              \o <<sep_line>>
              \o (IF FileLabel(clean_line) # <<>>
                  THEN <<<<"F","i","l","e",":"," ">> \o FileLabel(clean_line)>>
                  ELSE <<>>)
              \o <<sep_line>>
              \o <<EmitLine(line, clean_line)>>
        ELSE out \o <<EmitLine(line, clean_line)>>

RECURSIVE FormatDiffFrom(_, _)
FormatDiffFrom(out, ls) ==
    IF ls = <<>> THEN out ELSE FormatDiffFrom(FormatDiffLine(out, Head(ls)), Tail(ls))

\* an empty diff_text is returned as it is
format_diff_with_separators(text) ==
    IF text = <<>> THEN text ELSE Join(FormatDiffFrom(<<>>, splitlines(text)))

(***************************************************************************)
(* The history and its lookups.  log holds the commits git log --all       *)
(* lists, newest first; run_git(['log', ...]) prints one line for each.    *)
(***************************************************************************)
\* a line of git log --all --pretty=format:'%H %s'
HashSubjectLine(c) == c.hash \o <<" ">> \o c.subject

\* get_versions(): the stripped subjects that match VERSION_PATTERN, in order
RECURSIVE VersionsFrom(_)
VersionsFrom(l) ==
    IF l = <<>> THEN <<>>
    ELSE (IF MatchVersion(Strip(Head(l).subject)) THEN <<Strip(Head(l).subject)>> ELSE <<>>)
            \o VersionsFrom(Tail(l))

get_versions(l) == VersionsFrom(l)

\* find_commit_for_version(version): the first word of the first line that
\* holds the version, or None
RECURSIVE find_commit_for_version(_, _)
find_commit_for_version(l, version) ==
    IF l = <<>> THEN None
    ELSE IF Contains(HashSubjectLine(Head(l)), version)
    THEN <<SplitWords(HashSubjectLine(Head(l)), <<>>)[1]>>
    ELSE find_commit_for_version(Tail(l), version)

\* versions[1] for the older and versions[0] for the newer: a faulty variant
LatestSwapped(vs) == [to_version |-> <<vs[2]>>, from_version |-> <<vs[1]>>]

\* args.to_version = versions[0]; args.from_version = versions[1]
LatestPair(vs) == [to_version |-> <<vs[1]>>, from_version |-> <<vs[2]>>]

\* versions.index(target_version), counted from 1
IndexOf(vs, v) == CHOOSE i \in DOMAIN vs : vs[i] = v /\ \A j \in 1..(i - 1) : vs[j] # v

(***************************************************************************)
(* Inputs.                                                                 *)
(***************************************************************************)
Alphabet == {"v", "1", ".", "-", "+", "a", ":", " ", "(", ")"}

\* every string over Alphabet of at most n characters
StringsUpTo(n) == UNION {[1..k -> Alphabet] : k \in 0..n}

\* Subjects as git prints them, one for each category and each shape.
Subjects ==
    { <<"f","e","a","t","(","a",")",":"," ","x">>,    \* feat(a): x
      <<"f","i","x",":"," ","y">>,                    \* fix: y
      <<"v","1",".","2",".","0">>,                    \* v1.2.0
      <<"c","h","o","r","e",":"," ","z">>,            \* chore: z
      <<"w","i","p">>,                                \* wip
      <<"P","e","r","f",":"," ","p">>,                \* Perf: p
      <<"d","o","c","s",":"," ","d">>,                \* docs: d
      <<"r","e","f","a","c","t","o","r",":"," ","r">>,\* refactor: r
      <<"t","e","s","t",":"," ","t">>,                \* test: t
      <<"b","u","i","l","d",":"," ","b">> }           \* build: b

IdleParse == message = <<>> /\ parsed = None
IdleChangelog ==
    commits = <<>> /\ fmt = "text" /\ emoji = FALSE /\ categorized = <<>> /\ output = <<>>
IdleDiff == diff_text = <<>> /\ formatted = <<>>
IdleMain ==
    /\ log = <<>> /\ args = <<>> /\ versions = <<>> /\ from_hash = None /\ to_hash = None
    /\ stdout = "" /\ stderr = "" /\ exit_code = None
IdleSpinner ==
    /\ func = "" /\ config = [url |-> <<>>, key |-> <<>>] /\ staged = <<>>
    /\ stop_event = FALSE /\ spin_thread = "unstarted" /\ chars = 0 /\ tty = ""

(***************************************************************************)
(* parse_commit on one subject.                                            *)
(***************************************************************************)
InitParse ==
    /\ pc = "parse_commit"
    /\ message \in StringsUpTo(MaxLen) \cup Subjects
    /\ parsed = None
    /\ IdleChangelog /\ IdleDiff /\ IdleMain /\ IdleSpinner

ParseCommit ==
    /\ pc = "parse_commit"
    /\ parsed' = parse_commit(message)
    /\ pc' = "parsed"
    /\ UNCHANGED <<message, clVars, diffVars, mainVars, spinVars>>

NextParse == ParseCommit

SpecParse == InitParse /\ [][NextParse]_vars

(***************************************************************************)
(* The two grammars of the specification, stated by the shape of the       *)
(* string rather than by a matching procedure.                             *)
(***************************************************************************)
AllDigits(s) == s # <<>> /\ \A i \in DOMAIN s : IsDigit(s[i])

\* what may follow major.minor: nothing, .patch, a signed suffix, or both
VersionRest(r) ==
    \/ r = <<>>
    \/ r[1] = "." /\ AllDigits(Tail(r))
    \/ r[1] \in {"+", "-"} /\ Len(r) >= 2
    \/ /\ r[1] = "."
       /\ \E k \in 3..(Len(r) - 1) :
            AllDigits(SubSeq(r, 2, k - 1)) /\ r[k] \in {"+", "-"}

\* optional v, digits, ".", digits, then VersionRest
IsVersionTag(s) ==
    LET t == IF s # <<>> /\ s[1] = "v" THEN Tail(s) ELSE s
    IN  \E d \in 2..(Len(t) - 1) : \E e \in (d + 1)..Len(t) :
            /\ AllDigits(SubSeq(t, 1, d - 1))
            /\ t[d] = "."
            /\ AllDigits(SubSeq(t, d + 1, e))
            /\ VersionRest(Tail_(t, e + 1))

AllWord(s) == s # <<>> /\ \A i \in DOMAIN s : IsWord(s[i])

\* The records  type(scope): description  or  type: description  that s spells.
ConventionalRecords(s) ==
    { [type |-> Lower(SubSeq(s, 1, i)), scope |-> None, description |-> Tail_(s, i + 3)] :
        i \in {k \in 1..(Len(s) - 3) :
                 AllWord(SubSeq(s, 1, k)) /\ SubSeq(s, k + 1, k + 2) = <<":", " ">>} }
    \cup
    UNION { { [type |-> Lower(SubSeq(s, 1, i)),
               scope |-> <<SubSeq(s, i + 2, j - 1)>>,
               description |-> Tail_(s, j + 3)] :
                j \in {k \in (i + 3)..(Len(s) - 3) :
                         /\ s[i + 1] = "("
                         /\ \A m \in (i + 2)..(k - 1) : s[m] # ")"
                         /\ s[k] = ")"
                         /\ SubSeq(s, k + 1, k + 2) = <<":", " ">>} } :
            i \in {k \in 1..(Len(s) - 6) : AllWord(SubSeq(s, 1, k))} }

\* C1: parse_commit returns None exactly for the subjects of the version
\* grammar; for every other subject it returns exactly one record, which is
\* ('other', no scope, the subject) when the subject is not of the
\* conventional-commit grammar and the record the subject spells otherwise.
C1_ParseTotal ==
    pc = "parsed" =>
        /\ (parsed = None) <=> IsVersionTag(message)
        /\ ~IsVersionTag(message) =>
            /\ Len(parsed) = 1
            /\ IF ConventionalRecords(message) = {}
               THEN parsed[1] = [type |-> Other, scope |-> None, description |-> message]
               ELSE parsed[1] \in ConventionalRecords(message)

\* a version tag has been parsed and discarded
C1_Witness == pc = "parsed" /\ parsed = None /\ message = <<"v", "1", ".", "1">>

(***************************************************************************)
(* The changelog of one range: categorize_commits, then format_output, as  *)
(* main runs them (lines 543-550).                                         *)
(***************************************************************************)
SeqsUpTo(S, n) == UNION {[1..k -> S] : k \in 0..n}

InitChangelog ==
    /\ pc = "categorize_commits"
    /\ commits \in SeqsUpTo(Subjects, MaxCommits)
    /\ fmt \in {"text", "md"}
    /\ emoji \in BOOLEAN
    /\ categorized = <<>>
    /\ output = <<>>
    /\ IdleParse /\ IdleDiff /\ IdleSpinner
    /\ log = <<>> /\ versions = <<>> /\ from_hash = None /\ to_hash = None
    /\ stdout = "" /\ stderr = "" /\ exit_code = None
    /\ args = [diff |-> FALSE, latest |-> FALSE,
               from_version |-> <<"1", ".", "1">>, to_version |-> <<"1", ".", "2">>]

CategorizeCommits ==
    /\ pc = "categorize_commits"
    /\ categorized' = categorize_commits(commits)
    /\ pc' = "format_output"
    /\ UNCHANGED <<commits, fmt, emoji, output, parseVars, diffVars, mainVars, spinVars>>

FormatOutput ==
    /\ pc = "format_output"
    /\ output' = format_output(args.from_version, args.to_version, categorized, fmt, emoji)
    /\ pc' = "formatted"
    /\ UNCHANGED <<commits, fmt, emoji, categorized, parseVars, diffVars, mainVars, spinVars>>

NextChangelog == CategorizeCommits \/ FormatOutput

SpecChangelog == InitChangelog /\ [][NextChangelog]_vars

(***************************************************************************)
(* The category table of the specification, and the rendered text read     *)
(* back line by line.                                                      *)
(***************************************************************************)
CategoryTable ==
    << 
       [type |-> <<"f","e","a","t">>, rank |-> 1, label |-> <<"F","e","a","t","u","r","e","s">>],
       [type |-> <<"f","i","x">>, rank |-> 2, label |-> <<"B","u","g"," ","F","i","x","e","s">>],
       [type |-> <<"p","e","r","f">>, rank |-> 3, label |-> <<"P","e","r","f","o","r","m","a","n","c","e">>],
       [type |-> <<"c","h","o","r","e">>, rank |-> 4, label |-> <<"C","h","o","r","e","s">>],
       [type |-> <<"d","o","c","s">>, rank |-> 5, label |-> <<"D","o","c","u","m","e","n","t","a","t","i","o","n">>],
       [type |-> <<"r","e","f","a","c","t","o","r">>, rank |-> 6, label |-> <<"R","e","f","a","c","t","o","r","s">>],
       [type |-> <<"t","e","s","t">>, rank |-> 7, label |-> <<"T","e","s","t","s">>],
       [type |-> <<"o","t","h","e","r">>, rank |-> 99, label |-> <<"O","t","h","e","r">>] >>

TableTypes == {CategoryTable[i].type : i \in DOMAIN CategoryTable}

TableRow(t) == CHOOSE r \in Range(CategoryTable) : r.type = t

EndsWith(s, p) == Len(p) <= Len(s) /\ SubSeq(s, Len(s) - Len(p) + 1, Len(s)) = p

\* the text cut at its newlines
RECURSIVE SplitLines(_)
SplitLines(text) ==
    IF \A i \in DOMAIN text : text[i] # "\n" THEN <<text>>
    ELSE LET i == CHOOSE k \in DOMAIN text :
                    text[k] = "\n" /\ \A j \in 1..(k - 1) : text[j] # "\n"
         IN  <<SubSeq(text, 1, i - 1)>> \o SplitLines(Tail_(text, i + 1))

OutLines == SplitLines(output)

\* a category heading: a line after the first that is not empty and not indented
IsHeading(l) == l # <<>> /\ l[1] # " "

HeadingAt(ol) == {i \in 2..Len(ol) : IsHeading(ol[i])}

\* the table types whose label, followed by ":", ends the line
HeadingTypes(l) == {t \in TableTypes : EndsWith(l, TableRow(t).label \o <<":">>)}

\* the bullet lines that follow line i, up to the next line that is no bullet
RECURSIVE BulletsAfter(_, _)
BulletsAfter(ol, i) ==
    IF i + 1 <= Len(ol) /\ StartsWith(ol[i + 1], <<" ", " ", "-", " ">>)
    THEN <<ol[i + 1]>> \o BulletsAfter(ol, i + 1)
    ELSE <<>>

\* what a subject stands for: whether it is a version tag, and otherwise its
\* record and the category the record falls in
SubjectInfo(s) ==
    LET cr == ConventionalRecords(s)
        r  == IF cr = {}
              THEN [type |-> Other, scope |-> None, description |-> s]
              ELSE CHOOSE x \in cr : TRUE
    IN  [tag |-> IsVersionTag(s),
         rec |-> r,
         cat |-> IF r.type \in TableTypes THEN r.type ELSE Other]

Infos == [k \in DOMAIN commits |-> SubjectInfo(commits[k])]

\* the records, in order, of the subjects that are no tag and fall in category t
RECURSIVE RecordsIn(_, _, _)
RecordsIn(inf, k, t) ==
    IF k > Len(inf) THEN <<>>
    ELSE (IF ~inf[k].tag /\ inf[k].cat = t THEN <<inf[k].rec>> ELSE <<>>)
            \o RecordsIn(inf, k + 1, t)

\* the bullet a record is listed as
BulletOf(r) ==
    <<" ", " ", "-", " ">> \o (IF r.scope = None THEN <<>> ELSE r.scope[1] \o <<":", " ">>)
        \o r.description

\* the list the report holds for category t (empty when t is no key)
Listed(t) ==
    IF \E i \in DOMAIN categorized : categorized[i].key = t
    THEN categorized[CHOOSE i \in DOMAIN categorized : categorized[i].key = t].commits
    ELSE <<>>

\* the categories in the order the subjects first fall in them
RECURSIVE FirstSeen(_, _, _)
FirstSeen(inf, k, seen) ==
    IF k > Len(inf) THEN seen
    ELSE IF inf[k].tag \/ \E i \in DOMAIN seen : seen[i] = inf[k].cat
    THEN FirstSeen(inf, k + 1, seen)
    ELSE FirstSeen(inf, k + 1, Append(seen, inf[k].cat))

\* the expected records of every category of the table
Expected == LET inf == Infos IN [t \in TableTypes |-> RecordsIn(inf, 1, t)]

\* C2: the headings of the rendered changelog name table categories and
\* appear in strictly ascending rank order, whatever the order of the input.
C2_HeadingsAscend ==
    pc = "formatted" =>
        LET ol == OutLines
            hs == HeadingAt(ol)
            ht == [i \in hs |-> HeadingTypes(ol[i])]
        IN  /\ \A i \in hs : Cardinality(ht[i]) = 1
            /\ \A i, j \in hs :
                i < j => \A t \in ht[i] : \A u \in ht[j] : TableRow(t).rank < TableRow(u).rank

\* a changelog whose categories were first met in descending rank order
C2_Witness ==
    /\ pc = "formatted"
    /\ Cardinality(HeadingAt(OutLines)) >= 2
    /\ LET fs == FirstSeen(Infos, 1, <<>>)
       IN  \E i, j \in DOMAIN fs : i < j /\ TableRow(fs[i]).rank > TableRow(fs[j]).rank

\* C3: the records listed under a category are the records of the subjects
\* of the input that are no version tag and fall in it, once each and in the
\* order of the input; so are the bullets rendered under its heading.
C3_OrderKept ==
    /\ pc \in {"format_output", "formatted"} =>
        LET exp == Expected IN \A t \in TableTypes : Listed(t) = exp[t]
    /\ pc = "formatted" =>
        LET ol == OutLines
            hs == HeadingAt(ol)
            ht == [i \in hs |-> HeadingTypes(ol[i])]
            exp == Expected
        IN  /\ \A i \in hs : \A t \in ht[i] :
                BulletsAfter(ol, i) = [k \in DOMAIN exp[t] |-> BulletOf(exp[t][k])]
            /\ \A t \in TableTypes : exp[t] # <<>> => \E i \in hs : t \in ht[i]

\* two different subjects of one category, rendered
C3_Witness ==
    /\ pc = "formatted"
    /\ LET exp == Expected
       IN  \E t \in TableTypes : Len(exp[t]) >= 2 /\ exp[t][1] # exp[t][2]

\* C4: every key of the report is one of the eight categories and maps to a
\* non-empty list; a heading is rendered for exactly the categories that hold
\* a record, and with no commits the output is the header line alone.
C4_NoEmptyCategory ==
    /\ pc \in {"format_output", "formatted"} =>
        /\ \A i \in DOMAIN categorized :
            categorized[i].key \in TableTypes /\ categorized[i].commits # <<>>
        /\ \A i, j \in DOMAIN categorized : categorized[i].key = categorized[j].key => i = j
    /\ pc = "formatted" =>
        LET ol == OutLines
            hs == HeadingAt(ol)
            exp == Expected
        IN  /\ \A i \in hs : BulletsAfter(ol, i) # <<>>
            /\ Cardinality(hs) = Cardinality({t \in TableTypes : exp[t] # <<>>})
            /\ commits = <<>> =>
                output = HeaderLine(args.from_version, args.to_version, fmt)

\* a subject of a type outside the table has been categorized and rendered
C4_Witness ==
    /\ pc = "formatted"
    /\ LET inf == Infos
       IN  \E i \in DOMAIN inf : ~inf[i].tag /\ inf[i].rec.type \notin TableTypes

\* the marker format_output puts before a heading in markdown
HeadingMarker == IF fmt = "md" THEN <<"#", "#", "#", " ">> ELSE <<>>

\* C7: with emoji disabled a heading is the label of the table followed by
\* ":" (after the markdown marker, in markdown), nothing of the prefix left;
\* with emoji enabled the label is preceded by a symbol and a blank.
C7_HeadingTitle ==
    pc = "formatted" =>
        LET ol == OutLines
            hs == HeadingAt(ol)
        IN  \A i \in hs : \A t \in HeadingTypes(ol[i]) :
            LET h == ol[i]
                rest == Tail_(h, Len(HeadingMarker) + 1)
                label == TableRow(t).label \o <<":">>
            IN  /\ StartsWith(h, HeadingMarker)
                /\ ~emoji => rest = label
                /\ emoji =>
                    /\ EndsWith(rest, <<" ">> \o label)
                    /\ Len(rest) > Len(label) + 1
                    /\ \A k \in 1..(Len(rest) - Len(label) - 1) :
                        ~IsWord(rest[k]) /\ ~IsSpace(rest[k])

\* the Refactors heading rendered with emoji disabled
C7_Witness ==
    /\ pc = "formatted"
    /\ ~emoji
    /\ LET ol == OutLines
       IN  \E i \in HeadingAt(ol) : <<"r","e","f","a","c","t","o","r">> \in HeadingTypes(ol[i])

(***************************************************************************)
(* The diff reformatter on one diff.                                       *)
(***************************************************************************)
\* Lines as git diff prints them:
\*   'diff --git a/x b/x'            a file header
\*   '\x1b[1mdiff --git a/x b/y\x1b[m'  a coloured header of a rename
\*   'diff --cc x'                   the header of the combined diff of an unmerged file
\*   '+a'                            an added line
\*   '\x1b[32m+a\x1b[m'              a coloured added line
\*   ' diff --git a/x b/x'           a context line that quotes a header
\*   '+a\r'                          an added line of a file with CRLF line ends
HeaderLines ==
    { <<"d","i","f","f"," ","-","-","g","i","t"," ","a","/","x"," ","b","/","x">>,
      <<"ESC","[","1","m","d","i","f","f"," ","-","-","g","i","t"," ","a","/","x"," ","b","/","y","ESC","[","m">>,
      <<"d","i","f","f"," ","-","-","c","c"," ","x">> }

BodyLines ==
    { <<"+","a">>,
      <<"ESC","[","3","2","m","+","a","ESC","[","m">>,
      <<" ","d","i","f","f"," ","-","-","g","i","t"," ","a","/","x"," ","b","/","x">>,
      <<"+","a","\r">> }

DiffLines == HeaderLines \cup BodyLines

\* git ends every line with \n and prints the lines of a file after the header
\* of the file; build_diff_output strips the last \n (line 335)
InitDiff ==
    /\ pc = "format_diff"
    /\ diff_text \in {Join(ls) : ls \in {l \in SeqsUpTo(DiffLines, MaxLines) :
                                            l # <<>> => l[1] \in HeaderLines}}
    /\ formatted = <<>>
    /\ IdleParse /\ IdleChangelog /\ IdleMain /\ IdleSpinner

FormatDiff ==
    /\ pc = "format_diff"
    /\ formatted' = format_diff_with_separators(diff_text)
    /\ pc' = "diff_formatted"
    /\ UNCHANGED <<diff_text, parseVars, clVars, mainVars, spinVars>>

NextDiff == FormatDiff

SpecDiff == InitDiff /\ [][NextDiff]_vars

\* the lines of the input, as the reformatter cuts them, and of the output
InLines == splitlines(diff_text)

FormattedLines == IF formatted = <<>> THEN <<>> ELSE SplitLines(formatted)

\* the line without its colour codes: the codes are cut out one by one
RECURSIVE Uncoloured(_)
Uncoloured(l) ==
    IF \E i \in DOMAIN l : AnsiLen(Tail_(l, i)) > 0
    THEN LET i == CHOOSE j \in DOMAIN l : AnsiLen(Tail_(l, j)) > 0
         IN  Uncoloured(SubSeq(l, 1, i - 1) \o Tail_(l, i + AnsiLen(Tail_(l, i))))
    ELSE l

\* a file header: diff --git a/<path> b/<path>, once the colour codes are gone
IsFileHeader(l) == StartsWith(Uncoloured(l), DiffMarker)

\* the labels a header may be given: a-path -> b-path, or the path alone
HeaderLabels(l) ==
    LET c == Uncoloured(l)
        n == Len(DiffMarker)
    IN  { IF SubSeq(c, n + 3, i - 1) = Tail_(c, i + 3)
          THEN Tail_(c, i + 3)
          ELSE SubSeq(c, n + 3, i - 1) \o <<" ", "-", ">", " ">> \o Tail_(c, i + 3) :
            i \in {k \in (n + 4)..(Len(c) - 3) :
                     /\ SubSeq(c, n + 1, n + 2) = <<"a", "/">>
                     /\ SubSeq(c, k, k + 2) = <<" ", "b", "/">>} }

\* a line the reformatter inserts: a separator rule or a label line
IsInserted(l) == l = sep_line \/ StartsWith(l, <<"F","i","l","e",":"," ">>)

\* C8: every file header of the output is preceded by a separator rule, the
\* label of the file and a separator rule; one more separator rule comes
\* before that block for every header but the first header of the stream,
\* which has none, whatever lines precede it.
C8_SeparatorBlocks ==
    pc = "diff_formatted" =>
        LET fl == FormattedLines
        IN  \A k \in DOMAIN fl :
            IsFileHeader(fl[k]) =>
                /\ k >= 4
                /\ fl[k - 1] = sep_line
                /\ \E lab \in HeaderLabels(fl[k]) : EndsWith(fl[k - 2], lab)
                /\ fl[k - 3] = sep_line
                /\ IF \E j \in 1..(k - 1) : IsFileHeader(fl[j])
                   THEN k >= 5 /\ fl[k - 4] = sep_line
                   ELSE k = 4 \/ fl[k - 4] # sep_line

\* the lines of s that satisfy no IsInserted
RECURSIVE NotInserted(_)
NotInserted(s) ==
    IF s = <<>> THEN <<>>
    ELSE (IF IsInserted(Head(s)) THEN <<>> ELSE <<Head(s)>>) \o NotInserted(Tail(s))

Commits ==
    { [hash |-> <<"1","0">>, subject |-> <<"1",".","2">>],
      [hash |-> <<"2","b">>, subject |-> <<"1",".","1">>],
      [hash |-> <<"3","c">>, subject |-> <<"f","i","x",":"," ","a">>],
      [hash |-> <<"4","d">>, subject |-> <<"b","u","m","p"," ","1",".","2">>],
      [hash |-> <<"5","e">>, subject |-> <<"1",".","2">>],
      [hash |-> <<"1","f">>, subject |-> <<"w","i","p">>] }

\* the versions a user may ask for
Tags == { <<"1",".","2">>, <<"1",".","1">>, <<"1","0">> }

Need2          == "Need at least 2 versions"
NoSuchVersion  == "version not found"                  \* line 268
NoEarlier      == "no earlier version to compare with" \* line 273
NoCommitDiff   == "no commit found for the versions"   \* line 259
NoCommitLog    == "Could not find commits for versions"
GitError       == "Git error"

\* a history lists a commit once
Histories ==
    {l \in SeqsUpTo(Commits, MaxLog) : \A i, j \in DOMAIN l : l[i] = l[j] => i = j}

InitMain ==
    /\ pc = "main"
    /\ log \in Histories
    /\ args \in {a \in [diff : BOOLEAN, latest : BOOLEAN,
                        from_version : {None} \cup {<<t>> : t \in Tags},
                        to_version : {None} \cup {<<t>> : t \in Tags}] :
                   a.from_version = None => a.to_version = None}
    /\ versions = <<>>
    /\ from_hash = None
    /\ to_hash = None
    /\ stdout = ""
    /\ stderr = ""
    /\ exit_code = None
    /\ IdleParse /\ IdleDiff /\ IdleSpinner
    /\ commits = <<>> /\ fmt = "text" /\ emoji = FALSE /\ categorized = <<>> /\ output = <<>>

\* sys.exit(1) after printing msg to the error stream
Fail(msg) == stderr' = msg /\ exit_code' = <<1>> /\ pc' = "done"

\* --latest, with or without --diff (lines 489-495 and 519-525)
Latest ==
    /\ pc = "main"
    /\ args.latest
    /\ versions' = get_versions(log)
    /\ IF Len(versions') < 2
       THEN Fail(Need2) /\ UNCHANGED args
       ELSE /\ args' = [args EXCEPT !.to_version = LatestPair(versions').to_version,
                                    !.from_version = LatestPair(versions').from_version]
            /\ pc' = IF args.diff THEN "build_diff_output" ELSE "check_versions"
            /\ UNCHANGED <<stderr, exit_code>>
    /\ UNCHANGED <<log, from_hash, to_hash, stdout, parseVars, clVars, diffVars, spinVars>>

\* --diff with one version: get_previous_version (lines 496-498, 265-276)
Previous ==
    /\ pc = "main"
    /\ args.diff /\ ~args.latest
    /\ args.from_version # None /\ args.to_version = None
    /\ versions' = get_versions(log)
    /\ LET target == args.from_version[1]
       IN  IF \A i \in DOMAIN versions' : versions'[i] # target
           THEN Fail(NoSuchVersion) /\ UNCHANGED args
           ELSE IF IndexOf(versions', target) + 1 > Len(versions')
           THEN Fail(NoEarlier) /\ UNCHANGED args
           ELSE /\ args' = [args EXCEPT !.to_version = <<target>>,
                                        !.from_version = <<versions'[IndexOf(versions', target) + 1]>>]
                /\ pc' = "build_diff_output"
                /\ UNCHANGED <<stderr, exit_code>>
    /\ UNCHANGED <<log, from_hash, to_hash, stdout, parseVars, clVars, diffVars, spinVars>>

\* --diff with no version: the diff of the working tree (lines 499-508)
WorkingTree ==
    /\ pc = "main"
    /\ args.diff /\ ~args.latest
    /\ args.from_version = None /\ args.to_version = None
    /\ \E git_ok \in BOOLEAN :
        IF git_ok
        THEN stdout' = "working tree diff" /\ exit_code' = <<0>> /\ pc' = "done" /\ UNCHANGED stderr
        ELSE Fail(GitError) /\ UNCHANGED stdout
    /\ UNCHANGED <<log, args, versions, from_hash, to_hash, parseVars, clVars, diffVars, spinVars>>

\* no --latest: the versions are those of the command line
Given ==
    /\ pc = "main"
    /\ ~args.latest
    /\ ~args.diff \/ (args.from_version # None /\ args.to_version # None)
    /\ pc' = IF args.diff THEN "build_diff_output" ELSE "check_versions"
    /\ UNCHANGED <<parseVars, clVars, diffVars, mainVars, spinVars>>

\* if not args.from_version or not args.to_version (lines 527-529)
CheckVersions ==
    /\ pc = "check_versions"
    /\ IF args.from_version = None \/ args.to_version = None
       THEN stdout' = "help" /\ exit_code' = <<1>> /\ pc' = "done"
       ELSE pc' = "get_commits_between" /\ UNCHANGED <<stdout, exit_code>>
    /\ UNCHANGED <<log, args, versions, from_hash, to_hash, stderr, parseVars, clVars, diffVars, spinVars>>

\* get_commits_between, then the changelog printed (lines 531-552, 364-373)
Changelog ==
    /\ pc = "get_commits_between"
    /\ from_hash' = find_commit_for_version(log, args.from_version[1])
    /\ to_hash' = find_commit_for_version(log, args.to_version[1])
    /\ IF from_hash' = None \/ to_hash' = None
       THEN Fail(NoCommitLog) /\ UNCHANGED stdout
       ELSE \E git_ok \in BOOLEAN :
            IF git_ok
            THEN stdout' = "changelog" /\ exit_code' = <<0>> /\ pc' = "done" /\ UNCHANGED stderr
            ELSE Fail(GitError) /\ UNCHANGED stdout
    /\ UNCHANGED <<log, args, versions, parseVars, clVars, diffVars, spinVars>>

\* build_diff_output, then the diff printed (lines 509-517, 325-342, 254-262)
BuildDiffOutput ==
    /\ pc = "build_diff_output"
    /\ from_hash' = find_commit_for_version(log, args.from_version[1])
    /\ to_hash' = find_commit_for_version(log, args.to_version[1])
    /\ IF from_hash' = None \/ to_hash' = None
       THEN Fail(NoCommitDiff) /\ UNCHANGED stdout
       ELSE \E git_ok \in BOOLEAN :
            IF git_ok
            THEN stdout' = "diff" /\ exit_code' = <<0>> /\ pc' = "done" /\ UNCHANGED stderr
            ELSE Fail(GitError) /\ UNCHANGED stdout
    /\ UNCHANGED <<log, args, versions, parseVars, clVars, diffVars, spinVars>>

Next == Latest \/ Previous \/ WorkingTree \/ Given \/ CheckVersions \/ Changelog \/ BuildDiffOutput

Spec == InitMain /\ [][Next]_vars

(***************************************************************************)
(* Range extraction as the specification states it.                        *)
(***************************************************************************)
\* the commits whose subject holds the tag, by position
SubjectMatches(tag) == {i \in DOMAIN log : Contains(log[i].subject, tag)}

Min(S) == CHOOSE m \in S : \A n \in S : m <= n

\* the commit id of the first commit whose subject holds the tag, or None
FirstSubjectMatch(tag) ==
    IF SubjectMatches(tag) = {} THEN None ELSE <<log[Min(SubjectMatches(tag))].hash>>

\* the invocation has looked the two tags up
LookedUp ==
    /\ pc = "done"
    /\ stdout \in {"changelog", "diff"} \/ stderr \in {NoCommitLog, NoCommitDiff}
       \/ (stderr = GitError /\ args.from_version # None)

\* C5: each tag resolves to the commit id of the first line of the stream
\* whose subject holds the tag; a line whose subject does not hold the tag
\* is never selected.
C5_FirstSubjectWins ==
    LookedUp =>
        /\ from_hash = FirstSubjectMatch(args.from_version[1])
        /\ to_hash = FirstSubjectMatch(args.to_version[1])

\* C6: a changelog or diff invocation one of whose tags matches no commit
\* ends with a non-zero status and an error message and prints nothing; it
\* ends with status zero only when both tags match and the output is whole.
C6_FailFast ==
    LookedUp =>
        /\ (FirstSubjectMatch(args.from_version[1]) = None
                \/ FirstSubjectMatch(args.to_version[1]) = None)
            => exit_code = <<1>> /\ stderr # "" /\ stdout = ""
        /\ exit_code = <<0>> =>
            /\ FirstSubjectMatch(args.from_version[1]) # None
            /\ FirstSubjectMatch(args.to_version[1]) # None
            /\ stdout \in {"changelog", "diff"}

\* the version tags of the stream, in stream order
RECURSIVE TagSubjects(_)
TagSubjects(l) ==
    IF l = <<>> THEN <<>>
    ELSE (IF IsVersionTag(Strip(Head(l).subject)) THEN <<Strip(Head(l).subject)>> ELSE <<>>)
            \o TagSubjects(Tail(l))

\* C10: with --latest the command fails (status 1, "Need at least 2
\* versions", nothing printed) exactly when the stream holds fewer than two
\* version tags; otherwise it goes on with to-version the first version tag
\* of the stream and from-version the second.
C10_LatestTwo ==
    /\ stderr = Need2 =>
        args.latest /\ exit_code = <<1>> /\ stdout = "" /\ pc = "done"
    /\ (args.latest /\ pc # "main") =>
        /\ stderr = Need2 <=> Len(TagSubjects(log)) < 2
        /\ Len(TagSubjects(log)) >= 2 =>
            /\ args.to_version = <<TagSubjects(log)[1]>>
            /\ args.from_version = <<TagSubjects(log)[2]>>

\* --latest went on with two different versions
C10_Witness ==
    /\ args.latest
    /\ pc = "done"
    /\ stdout \in {"changelog", "diff"}
    /\ args.to_version # args.from_version

(***************************************************************************)
(* The two AI requests, call_ai (lines 66-146) and generate_commit_message *)
(* (lines 155-225), and the spinner thread they start (lines 54-63).  pc   *)
(* is the position of the main thread and spin_thread the position of the  *)
(* spinner thread.  The prompt depends on lang and emoji, but building it  *)
(* cannot fail and no branch depends on it, so the two are left out.       *)
(***************************************************************************)
FrameCount == 10   \* the frames of itertools.cycle([...]) (line 57)

NoStaged   == "no staged changes, git add first"     \* line 162
NoConfig   == "configure the AI API first"           \* lines 77 and 170
AiFailed   == "AI call failed"                       \* lines 145 and 224
UnknownUrl == "ValueError: unknown url type"         \* the traceback of an uncaught error

\* the url and the key a configuration file may hold: none, a url that is only
\* a slash, urls without and with a scheme, one of them ending in a slash
Urls == { <<>>, <<"/">>, <<"a", "/", "b">>, <<"h", ":", "/", "a">>, <<"h", ":", "/", "a", "/">> }
Keys == { <<>>, <<"k">> }
StagedDiffs == { <<>>, <<"+", "a">> }

\* url.rstrip('/')
RStripSlash(s) ==
    LET keep == {i \in DOMAIN s : s[i] # "/"}
    IN  IF keep = {} THEN <<>> ELSE SubSeq(s, 1, CHOOSE i \in keep : \A j \in keep : j <= i)

\* config.get('url', '').rstrip('/')
Url == RStripSlash(config.url)

\* urllib.request.Request(url, ...) raises ValueError('unknown url type') unless
\* the url starts with a scheme, one or more characters other than / and :
\* followed by a colon
HasScheme(s) ==
    \E i \in 2..Len(s) : s[i] = ":" /\ \A j \in 1..(i - 1) : s[j] \notin {"/", ":"}

InitSpinner ==
    /\ func \in {"call_ai", "generate_commit_message"}
    /\ pc = func
    /\ config \in [url : Urls, key : Keys]
    /\ staged \in (IF func = "call_ai" THEN {<<>>} ELSE StagedDiffs)
    /\ stop_event = FALSE
    /\ spin_thread = "unstarted"
    /\ chars = 0
    /\ tty = ""
    /\ IdleParse /\ IdleChangelog /\ IdleDiff /\ IdleMain

\* generate_commit_message, lines 160-163: nothing is staged
GetStagedDiff ==
    /\ pc = "generate_commit_message"
    /\ IF staged = <<>>
       THEN stderr' = NoStaged /\ pc' = "sys.exit"
       ELSE pc' = "config" /\ UNCHANGED stderr
    /\ UNCHANGED <<log, args, versions, from_hash, to_hash, stdout, exit_code,
                   parseVars, clVars, diffVars, spinVars>>

\* lines 71-78 and 165-171: the url and the key must be configured
CheckConfig ==
    /\ pc \in {"call_ai", "config"}
    /\ IF Url = <<>> \/ config.key = <<>>
       THEN stderr' = NoConfig /\ pc' = "sys.exit"
       ELSE pc' = "start" /\ UNCHANGED stderr
    /\ UNCHANGED <<log, args, versions, from_hash, to_hash, stdout, exit_code,
                   parseVars, clVars, diffVars, spinVars>>

\* lines 83-85 and 173-175: a new event, and a thread that is not a daemon
StartSpinner ==
    /\ pc = "start"
    /\ stop_event' = FALSE
    /\ spin_thread' = "while"
    /\ pc' = "build"
    /\ UNCHANGED <<func, config, staged, chars, tty, parseVars, clVars, diffVars, mainVars>>

\* lines 87-133 and 177-212: the prompt, the body and the Request object are
\* built outside the try statement; an error raised here leaves the function
\* and then main, which catches nothing
BuildRequest ==
    /\ pc = "build"
    /\ IF HasScheme(Url)
       THEN pc' = "urlopen" /\ UNCHANGED stderr
       ELSE pc' = "raised" /\ stderr' = UnknownUrl
    /\ UNCHANGED <<log, args, versions, from_hash, to_hash, stdout, exit_code,
                   parseVars, clVars, diffVars, spinVars>>

\* lines 135-138 and 214-217: the blocking call, which ends within its timeout;
\* it raises (no certificate file, no connection, an HTTP error, a timeout, a
\* body that is not JSON) or yields the decoded body
UrlOpen ==
    /\ pc = "urlopen"
    /\ \E raised \in BOOLEAN : pc' = IF raised THEN "except" ELSE "set"
    /\ UNCHANGED <<parseVars, clVars, diffVars, mainVars, spinVars>>

\* lines 139 and 218, and lines 143 and 222: stop_event.set()
SetStopEvent ==
    /\ pc \in {"set", "except"}
    /\ stop_event' = TRUE
    /\ pc' = IF pc = "set" THEN "join" ELSE "join_failed"
    /\ UNCHANGED <<func, config, staged, spin_thread, chars, tty,
                   parseVars, clVars, diffVars, mainVars>>

\* lines 140-141 and 219-220: spin_thread.join() blocks until the thread has
\* ended; then the content of the body is returned, or the body lacks it and
\* the KeyError, IndexError or TypeError is caught by the except clause
JoinAndReturn ==
    /\ pc = "join"
    /\ spin_thread = "done"
    /\ \E well_formed \in BOOLEAN :
           IF well_formed
           THEN pc' = "returned" /\ stdout' = "AI output"
           ELSE pc' = "except" /\ UNCHANGED stdout
    /\ UNCHANGED <<log, args, versions, from_hash, to_hash, stderr, exit_code,
                   parseVars, clVars, diffVars, spinVars>>

\* lines 144-146 and 223-225: join, report, sys.exit(1)
JoinAndFail ==
    /\ pc = "join_failed"
    /\ spin_thread = "done"
    /\ stderr' = AiFailed
    /\ pc' = "sys.exit"
    /\ UNCHANGED <<log, args, versions, from_hash, to_hash, stdout, exit_code,
                   parseVars, clVars, diffVars, spinVars>>

\* the end of the process after main has returned, after sys.exit(1) or after
\* an uncaught error: the interpreter first waits for every thread that is not
\* a daemon (lines 84 and 174 create the thread without daemon=True)
Shutdown ==
    /\ pc \in {"returned", "sys.exit", "raised"}
    /\ spin_thread \in {"unstarted", "done"}
    /\ exit_code' = IF pc = "returned" THEN <<0>> ELSE <<1>>
    /\ pc' = "terminated"
    /\ UNCHANGED <<log, args, versions, from_hash, to_hash, stdout, stderr,
                   parseVars, clVars, diffVars, spinVars>>

\* spinner, line 58: while not stop_event.is_set()
SpinnerTest ==
    /\ spin_thread = "while"
    /\ spin_thread' = IF stop_event THEN "clear" ELSE "write"
    /\ UNCHANGED <<pc, func, config, staged, stop_event, chars, tty,
                   parseVars, clVars, diffVars, mainVars>>

\* spinner, lines 59-61: the next frame is written, and stop_event.wait(0.1)
\* returns when the event is set or after a tenth of a second
SpinnerWrite ==
    /\ spin_thread = "write"
    /\ tty' = "spinner"
    /\ chars' = (chars + 1) % FrameCount
    /\ spin_thread' = "while"
    /\ UNCHANGED <<pc, func, config, staged, stop_event, parseVars, clVars, diffVars, mainVars>>

\* spinner, lines 62-63: the line is blanked and the thread ends
SpinnerClear ==
    /\ spin_thread = "clear"
    /\ tty' = "blank"
    /\ spin_thread' = "done"
    /\ UNCHANGED <<pc, func, config, staged, stop_event, chars, parseVars, clVars, diffVars, mainVars>>

MainFlow ==
    \/ GetStagedDiff \/ CheckConfig \/ StartSpinner \/ BuildRequest \/ UrlOpen
    \/ SetStopEvent \/ JoinAndReturn \/ JoinAndFail \/ Shutdown

Spinner == SpinnerTest \/ SpinnerWrite \/ SpinnerClear

NextSpinner == MainFlow \/ Spinner

\* both threads are scheduled as long as they can take a step: the interpreter
\* switches between its threads, and the blocking call has a timeout of 60 s
SpecSpinner == InitSpinner /\ [][NextSpinner]_vars /\ WF_vars(MainFlow) /\ WF_vars(Spinner)

\* C11: once the spinner thread has been started, the stop signal is
\* eventually set and the spinner thread ends, on every path of the request,
\* a failure while the request is built included: the spinner never runs forever
C11_SpinnerStops == (spin_thread # "unstarted") ~> (stop_event /\ spin_thread = "done")

====
